---- MODULE Spec2Model ----
(***************************************************************************)
(* Model of the Todo List application: the controller (TodoList), the     *)
(* task entity (TodoItem), the validator (TodoValidator), the persistence *)
(* adapter (TodoStorage).                                                  *)
(*                                                                         *)
(* JavaScript values are tagged records [k, n, s] so that values of       *)
(* different JavaScript types can be compared with =, which then is ===:  *)
(*   k  the kind: "undefined", "null", "boolean", "number", "infinity",   *)
(*      "string", and for properties of parsed objects "absent";          *)
(*   n  the value of a number, 1/0 for a boolean, else 0;                  *)
(*   s  the characters of a string (one-character strings), else <<>>.    *)
(* A JSON text is modelled by its syntax tree; JSON.parse and              *)
(* JSON.stringify are the conversions between trees and values.            *)
(***************************************************************************)
EXTENDS Integers, Sequences, FiniteSets, TLC

(***************************************************************************)
(* Bounds of the model.                                                    *)
(***************************************************************************)
MaxTodos == 2      \* addTodo is called while the collection is shorter
MaxClock == 2      \* the clock reads 1..MaxClock milliseconds
MaxPad == 1        \* whitespace characters around a generated text
MaxCore == 102     \* non-blank characters of a generated text
MaxShows == 4      \* notifications shown on one page

(***************************************************************************)
(* Program constants.                                                      *)
(***************************************************************************)
MIN_LENGTH == 1
MAX_LENGTH == 100

(***************************************************************************)
(* JavaScript values.                                                      *)
(***************************************************************************)
Undefined == [k |-> "undefined", n |-> 0, s |-> <<>>]
Null == [k |-> "null", n |-> 0, s |-> <<>>]
Absent == [k |-> "absent", n |-> 0, s |-> <<>>]
Infinity == [k |-> "infinity", n |-> 0, s |-> <<>>]
NaN == [k |-> "nan", n |-> 0, s |-> <<>>]
ObjectValue == [k |-> "object", n |-> 0, s |-> <<>>]
Bool(b) == [k |-> "boolean", n |-> IF b THEN 1 ELSE 0, s |-> <<>>]
Num(i) == [k |-> "number", n |-> i, s |-> <<>>]
Str(chars) == [k |-> "string", n |-> 0, s |-> chars]

\* typeof v
TypeOf(v) ==
    CASE v.k = "infinity" -> "number"
      [] v.k = "nan" -> "number"
      [] v.k = "null" -> "object"
      [] v.k = "absent" -> "undefined"
      [] OTHER -> v.k

\* ToBoolean(v): the truthiness used by !v, v || w and filter(Boolean)
Truthy(v) ==
    CASE v.k = "boolean" -> v.n = 1
      [] v.k = "number" -> v.n # 0
      [] v.k = "infinity" -> TRUE
      [] v.k = "string" -> v.s # <<>>
      [] v.k = "object" -> TRUE
      [] OTHER -> FALSE

(***************************************************************************)
(* Strings: sequences of characters.                                       *)
(***************************************************************************)
WhiteSpace == {" ", "\t", "\n"}

Rep(c, count) == [i \in 1..count |-> c]

\* the number of whitespace characters at the start of chars
LeadingBlanks(chars) ==
    CHOOSE count \in 0..Len(chars) :
        /\ \A i \in 1..count : chars[i] \in WhiteSpace
        /\ count < Len(chars) => chars[count + 1] \notin WhiteSpace

\* the number of whitespace characters at the end of chars
TrailingBlanks(chars) ==
    CHOOSE count \in 0..Len(chars) :
        /\ \A i \in 1..count : chars[Len(chars) + 1 - i] \in WhiteSpace
        /\ count < Len(chars) => chars[Len(chars) - count] \notin WhiteSpace

TrimStart(chars) == SubSeq(chars, LeadingBlanks(chars) + 1, Len(chars))
TrimEnd(chars) == SubSeq(chars, 1, Len(chars) - TrailingBlanks(chars))

\* String.prototype.trim
Trim(chars) == TrimEnd(TrimStart(chars))

(***************************************************************************)
(* TodoValidator.                                                          *)
(***************************************************************************)
ErrEmpty == "Please enter a task!"
ErrTooLong == "Task is too long! Maximum 100 characters."
ErrTooShort == "Task must have at least one character."
ErrId == "Invalid todo ID"
ErrObject == "Invalid todo object"
ErrCompleted == "Completed field must be a boolean"
ErrCreatedAt == "Invalid createdAt date"
ErrTypeError == "TypeError"

Valid == [isValid |-> TRUE, error |-> "null", threw |-> FALSE]
Invalid(err) == [isValid |-> FALSE, error |-> err, threw |-> FALSE]
\* the call did not return: it threw the exception err
Threw(err) == [isValid |-> FALSE, error |-> err, threw |-> TRUE]
NoResult == [isValid |-> FALSE, error |-> "none", threw |-> FALSE]

\* TodoValidator.validateText on the characters of a string
ValidateTextMutGE(chars) ==
    LET trimmedText == Trim(chars) IN
    IF trimmedText = <<>> THEN Invalid(ErrEmpty)
    ELSE IF Len(trimmedText) >= MAX_LENGTH THEN Invalid(ErrTooLong)
    ELSE IF Len(trimmedText) < MIN_LENGTH THEN Invalid(ErrTooShort)
    ELSE Valid

ValidateText(chars) ==
    LET trimmedText == Trim(chars) IN
    IF trimmedText = <<>> THEN Invalid(ErrEmpty)
    ELSE IF Len(trimmedText) > MAX_LENGTH THEN Invalid(ErrTooLong)
    ELSE IF Len(trimmedText) < MIN_LENGTH THEN Invalid(ErrTooShort)
    ELSE Valid

\* validateText applied to any value: text.trim() throws unless text is a
\* string
ValidateTextValue(v) ==
    IF v.k = "string" THEN ValidateText(v.s) ELSE Threw(ErrTypeError)

\* TodoValidator.validateId
ValidateId(id) ==
    IF ~Truthy(id) \/ TypeOf(id) # "number" \/ (id.k = "number" /\ id.n <= 0)
    THEN Invalid(ErrId)
    ELSE Valid

(***************************************************************************)
(* Dates.  The clock reads whole milliseconds 1..MaxClock; the ISO-8601    *)
(* string of the instant t is written <<"T", digit of t>>, and these are  *)
(* the strings that Date can parse.                                        *)
(***************************************************************************)
Digits == <<"0", "1", "2", "3", "4", "5", "6", "7", "8", "9">>
DigitChars == {Digits[i] : i \in 1..Len(Digits)}

\* new Date(t).toISOString()
ToISOString(t) == <<"T", Digits[t + 1]>>

\* TodoValidator.isValidDate: new Date(s).toString() !== 'Invalid Date'
IsValidDate(chars) ==
    Len(chars) = 2 /\ chars[1] = "T" /\ chars[2] \in DigitChars

(***************************************************************************)
(* Objects with the four task properties.  A property that the object     *)
(* does not have is Absent; prim is ObjectValue for an object and the      *)
(* value itself for an array element that is not an object.               *)
(***************************************************************************)
Obj(id, text, completed, createdAt) ==
    [prim |-> ObjectValue, id |-> id, text |-> text,
     completed |-> completed, createdAt |-> createdAt]
Prim(v) ==
    [prim |-> v, id |-> Absent, text |-> Absent,
     completed |-> Absent, createdAt |-> Absent]

\* o.f : reading a property the object does not have gives undefined
Get(v) == IF v.k = "absent" THEN Undefined ELSE v

ErrMissing(field) ==
    CASE field = "id" -> "Missing required field: id"
      [] field = "text" -> "Missing required field: text"
      [] field = "completed" -> "Missing required field: completed"
      [] OTHER -> "Missing required field: createdAt"

\* TodoValidator.validateTodoObject
ValidateTodoObject(todo) ==
    IF ~Truthy(todo.prim) \/ TypeOf(todo.prim) # "object"
    THEN Invalid(ErrObject)
    ELSE IF todo.id.k = "absent" THEN Invalid(ErrMissing("id"))
    ELSE IF todo.text.k = "absent" THEN Invalid(ErrMissing("text"))
    ELSE IF todo.completed.k = "absent" THEN Invalid(ErrMissing("completed"))
    ELSE IF todo.createdAt.k = "absent" THEN Invalid(ErrMissing("createdAt"))
    ELSE LET textValidation == ValidateTextValue(todo.text)
             idValidation == ValidateId(todo.id) IN
         IF ~textValidation.isValid THEN textValidation
         ELSE IF ~idValidation.isValid THEN idValidation
         ELSE IF TypeOf(todo.completed) # "boolean"
         THEN Invalid(ErrCompleted)
         ELSE IF TypeOf(todo.createdAt) # "string"
                 \/ ~IsValidDate(todo.createdAt.s)
         THEN Invalid(ErrCreatedAt)
         ELSE Valid

(***************************************************************************)
(* TodoItem: a record [id, text, completed, createdAt] of values.          *)
(***************************************************************************)
\* new TodoItem(text, id) while the clock reads clock
NewTodoItem(text, id, clock) ==
    [id |-> IF Truthy(id) THEN id ELSE Num(clock),
     text |-> text,
     completed |-> Bool(FALSE),
     createdAt |-> Str(ToISOString(clock))]

\* TodoItem.toggle
Toggle(todo) == [todo EXCEPT !.completed = Bool(~Truthy(todo.completed))]

\* TodoItem.updateText
UpdateTextMutRaw(todo, chars) == [todo EXCEPT !.text = Str(chars)]

UpdateText(todo, chars) == [todo EXCEPT !.text = Str(Trim(chars))]

\* TodoItem.toJSON
ToJSON(todo) == Obj(todo.id, todo.text, todo.completed, todo.createdAt)

\* TodoItem.fromJSON
FromJSONMutNoCompleted(data, clock) ==
    [NewTodoItem(Get(data.text), Get(data.id), clock)
        EXCEPT !.createdAt = Get(data.createdAt)]

FromJSON(data, clock) ==
    [NewTodoItem(Get(data.text), Get(data.id), clock)
        EXCEPT !.completed = Get(data.completed),
               !.createdAt = Get(data.createdAt)]

(***************************************************************************)
(* JSON.  A text is [k, items]: k = "array" with the elements' trees,      *)
(* k = "other" for a text that parses to something that is not an array,  *)
(* k = "invalid" for a text JSON.parse rejects.  In a tree a number        *)
(* literal beyond the range of a double has kind "bignumber".              *)
(***************************************************************************)
JsonArray(items) == [k |-> "array", items |-> items]
JsonOther == [k |-> "other", items |-> <<>>]
JsonInvalid == [k |-> "invalid", items |-> <<>>]
NoItem == [k |-> "absent", items |-> <<>>]      \* getItem returns null
BigNumber == [k |-> "bignumber", n |-> 0, s |-> <<>>]

\* JSON.parse of a value: a literal such as 1e400 overflows to Infinity
ParseValue(v) == IF v.k = "bignumber" THEN Infinity ELSE v
ParseElement(e) ==
    [prim |-> ParseValue(e.prim), id |-> ParseValue(e.id),
     text |-> ParseValue(e.text), completed |-> ParseValue(e.completed),
     createdAt |-> ParseValue(e.createdAt)]
\* JSON.parse of an array text: the sequence of its elements
ParseItems(json) == [i \in 1..Len(json.items) |-> ParseElement(json.items[i])]

\* JSON.stringify of a property value: a non-finite number is written
\* null, an undefined property is left out
StringifyValue(v) ==
    CASE v.k = "infinity" -> Null
      [] v.k = "undefined" -> Absent
      [] OTHER -> v
StringifyObject(o) ==
    [prim |-> o.prim, id |-> StringifyValue(o.id),
     text |-> StringifyValue(o.text),
     completed |-> StringifyValue(o.completed),
     createdAt |-> StringifyValue(o.createdAt)]
\* JSON.stringify(todos.map(todo => todo.toJSON()))
Stringify(ts) ==
    JsonArray([i \in 1..Len(ts) |-> StringifyObject(ToJSON(ts[i]))])

(***************************************************************************)
(* TodoStorage.                                                            *)
(***************************************************************************)
\* TodoStorage.saveTodos: the new content of the storage key
StorageSaveTodos(ts) == Stringify(ts)

\* localStorage is "working", "full" (setItem throws: the quota is
\* exceeded) or "denied" (getItem and setItem throw: access is refused)
StorageModes == {"working", "full", "denied"}
SetItemThrows(mode) == mode # "working"
GetItemThrows(mode) == mode = "denied"

\* the catch block of TodoStorage.saveTodos: does the exception of a
\* failing setItem leave saveTodos?
SaveEscapesMutNoCatch(mode) == SetItemThrows(mode)

SaveEscapes(mode) == FALSE

\* the content of the storage key after TodoStorage.saveTodos(ts)
Stored(mode, item, ts) ==
    IF SetItemThrows(mode) THEN item ELSE StorageSaveTodos(ts)

\* data.text !== undefined throws for null and undefined
TextReadThrows(data) == data.prim.k \in {"null", "undefined"}
KeepLoaded(data) == Get(data.text) # Undefined

\* TodoStorage.loadTodos
StorageLoadTodosMutNoArrayCheck(item) ==
    IF item.k = "absent" THEN <<>>
    ELSE SelectSeq(ParseItems(item), KeepLoaded)

StorageLoadTodos(item) ==
    IF item.k = "absent" THEN <<>>
    ELSE IF item.k # "array" THEN <<>>
    ELSE LET todoData == ParseItems(item) IN
         IF \E i \in 1..Len(todoData) : TextReadThrows(todoData[i])
         THEN <<>>
         ELSE SelectSeq(todoData, KeepLoaded)

\* TodoStorage.loadTodos when getItem may throw: the catch block
\* returns []
ReadTodos(mode, item) ==
    IF GetItemThrows(mode) THEN <<>> ELSE StorageLoadTodos(item)

\* TodoList.loadTodos
LoadTodos(mode, item, clock) ==
    LET storedTodos == ReadTodos(mode, item) IN
    [i \in 1..Len(storedTodos) |-> FromJSON(storedTodos[i], clock)]

(***************************************************************************)
(* Statistics and rendering.                                               *)
(***************************************************************************)
\* TodoList.getCompletedTodos
IsCompleted(todo) == Truthy(todo.completed)
GetCompletedTodos(ts) == SelectSeq(ts, IsCompleted)

\* TodoList.getIncompleteTodos
IsIncompleteMutStrict(todo) == todo.completed = Bool(FALSE)

IsIncomplete(todo) == ~Truthy(todo.completed)

GetIncompleteTodosMutInverted(ts) == SelectSeq(ts, IsCompleted)

GetIncompleteTodos(ts) == SelectSeq(ts, IsIncomplete)

\* (completed / total) * 100 as the fraction num / den
Percentage(completed, total) == [num |-> completed * 100, den |-> total]
ZeroRate == [num |-> 0, den |-> 1]

\* TodoList.getStats
GetStats(ts) ==
    LET total == Len(ts)
        completed == Len(GetCompletedTodos(ts))
        incomplete == Len(GetIncompleteTodos(ts)) IN
    [total |-> total, completed |-> completed, incomplete |-> incomplete,
     completionRate |-> IF total > 0 THEN Percentage(completed, total)
                        ELSE ZeroRate]

\* `${n}` for a number n >= 0: its decimal digits
RECURSIVE Decimal(_)
Decimal(n) ==
    IF n < 10 THEN <<Digits[n + 1]>>
    ELSE Decimal(n \div 10) \o <<Digits[(n % 10) + 1]>>

\* TodoRenderer.updateStats: the two texts
TotalText(total) == <<"Total: ">> \o Decimal(total)
CompletedText(completed) == <<"Completed: ">> \o Decimal(completed)

\* String(v) for the values an id can be: the decimal digits of a number,
\* "Infinity", a string itself
StringOf(v) ==
    CASE v.k = "number" -> Decimal(v.n)
      [] v.k = "infinity" -> <<"I", "n", "f", "i", "n", "i", "t", "y">>
      [] v.k = "string" -> v.s
      [] OTHER -> <<"[", "o", "b", "j", "e", "c", "t", "]">>

\* parseInt(chars): the number written by the digits that follow the leading
\* whitespace, NaN if there is none
RECURSIVE DigitPrefix(_)
DigitPrefix(chars) ==
    IF chars = <<>> \/ Head(chars) \notin DigitChars THEN <<>>
    ELSE <<Head(chars)>> \o DigitPrefix(Tail(chars))
DigitValue(char) == (CHOOSE i \in 1..Len(Digits) : Digits[i] = char) - 1
RECURSIVE NumberOf(_)
NumberOf(digits) ==
    IF digits = <<>> THEN 0
    ELSE NumberOf(SubSeq(digits, 1, Len(digits) - 1)) * 10
            + DigitValue(digits[Len(digits)])
ParseInt(chars) ==
    LET digits == DigitPrefix(TrimStart(chars)) IN
    IF digits = <<>> THEN NaN ELSE Num(NumberOf(digits))

\* TodoRenderer.createTodoElement: the class and checkbox follow the
\* truthiness of completed, the span holds the text, dataset.todoId the id
\* as a string
TodoElement(todo) ==
    [completed |-> Truthy(todo.completed), text |-> todo.text,
     todoId |-> StringOf(todo.id)]

\* the page before the first render: an empty list, no statistics texts
NoPage == [empty |-> FALSE, rows |-> <<>>, total |-> <<>>, completed |-> <<>>]

\* TodoList.render on a page that shows shown: afterwards the page shows
\* renderEmptyState or one element per task, and the statistics of getStats
RenderMutStale(ts, shown) == shown

Render(ts, shown) ==
    LET stats == GetStats(ts) IN
    [empty |-> Len(ts) = 0,
     rows |-> [i \in 1..Len(ts) |-> TodoElement(ts[i])],
     total |-> TotalText(stats.total),
     completed |-> CompletedText(stats.completed)]

(***************************************************************************)
(* State.                                                                  *)
(***************************************************************************)
VARIABLES
    todos,          \* TodoList.todos: the collection, a sequence of TodoItem
    store,          \* the JSON text under the storage key 'todos', or NoItem
    now,            \* the reading of the clock (Date.now())
    validated,      \* the validateText call of the last handler: its
                    \* argument and its Validation Result, or NoCall
    last,           \* what the last handler did: its name, its return
                    \* value, whether it called localStorage.setItem and the
                    \* type of the notification it asked for ("none" if
                    \* none), and the calls it made, in their order
    storage,        \* the mode of localStorage, one of StorageModes
    display,        \* what the page shows: the list and the two statistics
    body,           \* the notification elements in document.body, in order
    hideTimers,     \* notifications whose dismissal timer is pending
    removeTimers,   \* notifications whose 300 ms removal timer is pending
    created,        \* the number of notification elements created so far
    examined        \* a validateTodoObject call made on its own: its
                    \* argument and its Validation Result, or NoExamination

vars == <<todos, store, now, validated, last, storage, display,
          body, hideTimers, removeTimers, created, examined>>

\* the variables of the NotificationManager and of the page it writes to
notifyVars == <<body, hideTimers, removeTimers, created>>

NoCall == [called |-> FALSE, text |-> <<>>, result |-> NoResult]
NoExamination ==
    [called |-> FALSE, record |-> Prim(Undefined), result |-> NoResult]
\* const validation = TodoValidator.validateText(text)
Call(chars) == [called |-> TRUE, text |-> chars, result |-> ValidateText(chars)]

\* the notification call of a handler, if it makes one
Notifies(shown) == IF shown = "none" THEN <<>> ELSE <<"notify">>

\* the calls a handler makes after it changed this.todos, in their order:
\* this.saveTodos(), this.render(), then the notification; a handler that
\* returns early only notifies, one that saveTodos leaves by an exception
\* stops there, and init loads and renders
EffectsMutRenderFirst(op, ret, wrote, shown) ==
    IF op = "init" THEN <<"loadTodos", "render">>
    ELSE IF ~wrote THEN Notifies(shown)
    ELSE IF ret = "throws" THEN <<"saveTodos">>
    ELSE <<"render", "saveTodos">> \o Notifies(shown)

Effects(op, ret, wrote, shown) ==
    IF op = "init" THEN <<"loadTodos", "render">>
    ELSE IF ~wrote THEN Notifies(shown)
    ELSE IF ret = "throws" THEN <<"saveTodos">>
    ELSE <<"saveTodos", "render">> \o Notifies(shown)

Outcome(op, ret, wrote, shown) ==
    [op |-> op, ret |-> ret, wrote |-> wrote, shown |-> shown,
     effects |-> Effects(op, ret, wrote, shown)]

(***************************************************************************)
(* Inputs.                                                                 *)
(***************************************************************************)
BlankText == <<" ", "\t">>
PaddedText == <<" ">> \o Rep("a", MAX_LENGTH)
LongText == Rep("a", MAX_LENGTH + 1)

\* texts typed into the input field or passed to updateTodo
TextInputs == {BlankText, PaddedText, LongText}

\* ids passed to toggleTodo, deleteTodo and updateTodo
IdInputs == {todos[i].id : i \in 1..Len(todos)} \cup {Num(99)}

\* elements of the arrays passed to importTodos: two records that
\* validateTodoObject accepts (the id of the second is written 1e400) and
\* one without its completed field
PlainElement == Obj(Num(1), Str(<<" ", "b">>), Bool(TRUE), Str(ToISOString(0)))
HugeIdElement == Obj(BigNumber, Str(<<"b">>), Bool(FALSE), Str(ToISOString(0)))
PartialElement == Obj(Num(3), Str(<<"b">>), Absent, Str(ToISOString(0)))

\* the strings passed to importTodos: a text that is not JSON, a text that
\* is JSON but no array, and arrays of the elements above
ImportInputs ==
    { JsonInvalid,
      JsonOther,
      JsonArray(<<>>),
      JsonArray(<<PlainElement>>),
      JsonArray(<<PlainElement, PlainElement>>),
      JsonArray(<<PlainElement, HugeIdElement>>),
      JsonArray(<<PartialElement>>),
      JsonArray(<<PartialElement, PlainElement>>),
      JsonArray(<<PlainElement, PartialElement>>) }

(***************************************************************************)
(* TodoList.                                                               *)
(***************************************************************************)
\* the state after new TodoList() on a page whose storage key is absent
Init ==
    /\ todos = <<>>
    /\ store = NoItem
    /\ now = 1
    /\ validated = NoCall
    /\ last = Outcome("init", "void", FALSE, "none")
    /\ storage = "working"
    /\ display = Render(todos, NoPage)
    /\ body = <<>>
    /\ hideTimers = {}
    /\ removeTimers = {}
    /\ created = 0
    /\ examined = NoExamination

\* what follows this.saveTodos() in a handler: render() and the
\* notification, unless an exception left saveTodos
Completes(op, ret, shown) ==
    IF SaveEscapes(storage)
    THEN /\ display' = display
         /\ last' = Outcome(op, "throws", TRUE, "none")
    ELSE /\ display' = Render(todos', display)
         /\ last' = Outcome(op, ret, TRUE, shown)

\* a handler that returns before it changes anything
Returns(op, ret, shown) ==
    /\ last' = Outcome(op, ret, FALSE, shown)
    /\ UNCHANGED <<todos, store, now, display>>

\* if (!validation.isValid) { showError(validation.error); return }
RejectedMutOnlyEmpty(result) == ~result.isValid /\ result.error = ErrEmpty

Rejected(result) == ~result.isValid

\* const todoItem = new TodoItem(text); this.todos.push(todoItem)
PushTodoMutFront(ts, chars, clock) ==
    <<NewTodoItem(Str(chars), Null, clock)>> \o ts

PushTodo(ts, chars, clock) ==
    Append(ts, NewTodoItem(Str(chars), Null, clock))

\* TodoList.addTodo, with chars the value of the input field
AddTodo(chars) ==
    /\ validated' = Call(chars)
    /\ IF Rejected(validated'.result)
       THEN Returns("addTodo", "void", "error")
       ELSE /\ Len(todos) < MaxTodos
            /\ todos' = PushTodo(todos, chars, now)
            /\ store' = Stored(storage, store, todos')
            /\ Completes("addTodo", "void", "success")
            /\ UNCHANGED now
    /\ UNCHANGED <<storage, notifyVars, examined>>

\* TodoList.findTodoIndexById: the first index whose id === id, 0 for -1
FindTodoIndexByIdMutLast(ts, id) ==
    IF \E i \in 1..Len(ts) : ts[i].id = id
    THEN CHOOSE i \in 1..Len(ts) :
            /\ ts[i].id = id
            /\ \A j \in 1..(i - 1) : ts[j].id # id
    ELSE Len(ts)

FindTodoIndexById(ts, id) ==
    IF \E i \in 1..Len(ts) : ts[i].id = id
    THEN CHOOSE i \in 1..Len(ts) :
            /\ ts[i].id = id
            /\ \A j \in 1..(i - 1) : ts[j].id # id
    ELSE 0

\* const todo = this.findTodoById(id); if (todo) todo.toggle():
\* the collection afterwards
ToggledMutAll(ts, id) ==
    [i \in 1..Len(ts) |-> IF ts[i].id = id THEN Toggle(ts[i]) ELSE ts[i]]

Toggled(ts, id) ==
    LET index == FindTodoIndexById(ts, id) IN
    IF index > 0 THEN [ts EXCEPT ![index] = Toggle(ts[index])] ELSE ts

\* TodoList.toggleTodo
ToggleTodo(id) ==
    LET index == FindTodoIndexById(todos, id) IN
    /\ validated' = NoCall
    /\ IF index > 0
       THEN /\ todos' = Toggled(todos, id)
            /\ store' = Stored(storage, store, todos')
            /\ Completes("toggleTodo", "void", "none")
            /\ UNCHANGED now
       ELSE Returns("toggleTodo", "void", "none")
    /\ UNCHANGED <<storage, notifyVars, examined>>

\* this.todos.splice(index, 1)
SpliceMutToEnd(ts, index) == SubSeq(ts, 1, index - 1)

Splice(ts, index) ==
    SubSeq(ts, 1, index - 1) \o SubSeq(ts, index + 1, Len(ts))

\* TodoList.deleteTodo
DeleteTodo(id) ==
    LET index == FindTodoIndexById(todos, id) IN
    /\ validated' = NoCall
    /\ IF index > 0
       THEN /\ todos' = Splice(todos, index)
            /\ store' = Stored(storage, store, todos')
            /\ Completes("deleteTodo", "void", "info")
            /\ UNCHANGED now
       ELSE Returns("deleteTodo", "void", "none")
    /\ UNCHANGED <<storage, notifyVars, examined>>

\* TodoList.updateTodo
UpdateTodo(id, chars) ==
    LET index == FindTodoIndexById(todos, id) IN
    /\ validated' = Call(chars)
    /\ IF Rejected(validated'.result)
       THEN Returns("updateTodo", "false", "error")
       ELSE IF index > 0
       THEN /\ todos' = [todos EXCEPT ![index] = UpdateText(todos[index], chars)]
            /\ store' = Stored(storage, store, todos')
            /\ Completes("updateTodo", "true", "none")
            /\ UNCHANGED now
       ELSE Returns("updateTodo", "false", "none")
    /\ UNCHANGED <<storage, notifyVars, examined>>

\* TodoList.clearAllTodos
ClearAllTodos ==
    /\ todos' = <<>>
    /\ store' = Stored(storage, store, todos')
    /\ validated' = NoCall
    /\ Completes("clearAllTodos", "void", "info")
    /\ UNCHANGED <<now, storage, notifyVars, examined>>

\* TodoList.clearCompletedTodos
ClearCompletedTodos ==
    /\ todos' = GetIncompleteTodos(todos)
    /\ store' = Stored(storage, store, todos')
    /\ validated' = NoCall
    /\ Completes("clearCompletedTodos", "void", "info")
    /\ UNCHANGED <<now, storage, notifyVars, examined>>

\* the loop of importTodos over todoData: the result of the first
\* validateTodoObject call that is not valid, Valid when there is none
ImportValidationMutFirstOnly(todoData) ==
    IF todoData = <<>> THEN Valid ELSE ValidateTodoObject(todoData[1])

RECURSIVE ValidationFrom(_, _)
ValidationFrom(todoData, i) ==
    IF i > Len(todoData) THEN Valid
    ELSE LET result == ValidateTodoObject(todoData[i]) IN
         IF ~result.isValid THEN result
         ELSE ValidationFrom(todoData, i + 1)

ImportValidation(todoData) == ValidationFrom(todoData, 1)

\* todoData.map(data => TodoItem.fromJSON(data))
ImportedTodosMutDropCompleted(todoData, clock) ==
    [i \in 1..Len(todoData) |->
        [FromJSON(todoData[i], clock) EXCEPT !.completed = Bool(FALSE)]]

ImportedTodos(todoData, clock) ==
    [i \in 1..Len(todoData) |-> FromJSON(todoData[i], clock)]

\* importTodos reaches its catch block: JSON.parse throws, the value is
\* not an array, or an element is not valid
ImportFails(json) ==
    \/ json.k # "array"
    \/ ~ImportValidation(ParseItems(json)).isValid

\* TodoList.importTodos
ImportTodos(json) ==
    /\ validated' = NoCall
    /\ IF ImportFails(json)
       THEN Returns("importTodos", "false", "error")
       ELSE /\ todos' = ImportedTodos(ParseItems(json), now)
            /\ store' = Stored(storage, store, todos')
            /\ Completes("importTodos", "true", "success")
            /\ UNCHANGED now
    /\ UNCHANGED <<storage, notifyVars, examined>>

\* the page is loaded again: new TodoList() reads the storage key
Restart ==
    /\ todos' = LoadTodos(storage, store, now)
    /\ validated' = NoCall
    /\ last' = Outcome("init", "void", FALSE, "none")
    /\ display' = Render(todos', NoPage)
    /\ UNCHANGED <<store, now, storage, notifyVars, examined>>

\* a millisecond passes
Tick ==
    /\ now < MaxClock
    /\ now' = now + 1
    /\ UNCHANGED <<todos, store, validated, last, storage, display, notifyVars, examined>>

Next ==
    \/ \E chars \in TextInputs : AddTodo(chars)
    \/ \E id \in IdInputs : ToggleTodo(id)
    \/ \E id \in IdInputs : DeleteTodo(id)
    \/ \E id \in IdInputs, chars \in TextInputs : UpdateTodo(id, chars)
    \/ ClearAllTodos
    \/ ClearCompletedTodos
    \/ \E json \in ImportInputs : ImportTodos(json)
    \/ Restart
    \/ Tick

Spec == Init /\ [][Next]_vars

(***************************************************************************)
(* Export and import: the collection is edited from empty by the           *)
(* operations other than importTodos, and what exportTodos returns is      *)
(* passed to importTodos.                                                  *)
(***************************************************************************)
\* TodoList.exportTodos: JSON.stringify(this.todos.map(todo =>
\* todo.toJSON()), null, 2)
ExportTodosMutNoDate(ts) ==
    JsonArray([i \in 1..Len(ts) |->
        [StringifyObject(ToJSON(ts[i])) EXCEPT !.createdAt = Absent]])

ExportTodos(ts) == Stringify(ts)

\* importTodos(exportTodos())
ExportImport == ImportTodos(ExportTodos(todos))

NextEdit ==
    \/ \E chars \in TextInputs : AddTodo(chars)
    \/ \E id \in IdInputs : ToggleTodo(id)
    \/ \E id \in IdInputs : DeleteTodo(id)
    \/ \E id \in IdInputs, chars \in TextInputs : UpdateTodo(id, chars)
    \/ ClearAllTodos
    \/ ClearCompletedTodos
    \/ ExportImport
    \/ Tick

SpecEdit == Init /\ [][NextEdit]_vars

(***************************************************************************)
(* The controls of the rows: TodoRenderer.addEventListeners gives the      *)
(* checkbox and the delete button of a row listeners that pass             *)
(* parseInt(dataset.todoId) to toggleTodo and deleteTodo.                  *)
(***************************************************************************)
\* const todoId = parseInt(todoElement.dataset.todoId)
RowId(row) == ParseInt(row.todoId)

\* the checkbox of row i changes: callbacks.onToggle(todoId)
ToggleRow(i) ==
    /\ i \in 1..Len(display.rows)
    /\ ToggleTodo(RowId(display.rows[i]))

\* the delete button of row i is clicked: callbacks.onDelete(todoId)
DeleteRow(i) ==
    /\ i \in 1..Len(display.rows)
    /\ DeleteTodo(RowId(display.rows[i]))

NextRows ==
    \/ Next
    \/ \E i \in 1..MaxTodos : ToggleRow(i)
    \/ \E i \in 1..MaxTodos : DeleteRow(i)

SpecRows == Init /\ [][NextRows]_vars

(***************************************************************************)
(* The page is opened on a storage key that already holds something, and   *)
(* on a localStorage that fails.                                           *)
(***************************************************************************)
\* records found under the key that this program did not write: completed
\* is a string in the first and is missing in the second
LooseDoneElement ==
    Obj(Num(5), Str(<<"c">>), Str(<<"y">>), Str(ToISOString(0)))
LooseOpenElement == Obj(Num(6), Str(<<"d">>), Absent, Str(ToISOString(0)))
\* a record whose id is 0, a record without a text, and an element that is
\* null
ZeroIdElement == Obj(Num(0), Str(<<"e">>), Bool(TRUE), Str(ToISOString(0)))
NoTextElement == Obj(Num(7), Absent, Bool(FALSE), Str(ToISOString(0)))
NullElement == Prim(Null)

\* a JSON text that is one object, not an array: items holds the object
JsonObject == [k |-> "other", items |-> <<PlainElement>>]

\* what the storage key holds when the page is opened
StoredInputs ==
    { NoItem,
      JsonInvalid,
      JsonOther,
      JsonObject,
      JsonArray(<<PlainElement>>),
      JsonArray(<<LooseDoneElement, LooseOpenElement>>),
      JsonArray(<<NoTextElement, ZeroIdElement>>),
      JsonArray(<<NullElement, PlainElement>>) }

\* the state after new TodoList() with the key holding item and
\* localStorage in the given mode
Opened(mode, item) ==
    /\ storage = mode
    /\ store = item
    /\ now = 1
    /\ todos = LoadTodos(mode, item, now)
    /\ validated = NoCall
    /\ last = Outcome("init", "void", FALSE, "none")
    /\ display = Render(todos, NoPage)
    /\ body = <<>>
    /\ hideTimers = {}
    /\ removeTimers = {}
    /\ created = 0
    /\ examined = NoExamination

\* the key holds one of StoredInputs, or localStorage refuses access to a
\* key that holds a task
InitStored ==
    \/ \E item \in StoredInputs : Opened("working", item)
    \/ Opened("denied", JsonArray(<<PlainElement>>))

SpecStored == InitStored /\ [][Next]_vars

\* localStorage is full from the start, or refuses access to a key that
\* holds a task
InitFailing ==
    \/ Opened("full", NoItem)
    \/ Opened("denied", JsonArray(<<PlainElement>>))

SpecFailing == InitFailing /\ [][Next]_vars

(***************************************************************************)
(* The validator on its own: one validateText call on a generated text.   *)
(***************************************************************************)
Pads == UNION {[1..len -> WhiteSpace] : len \in 0..MaxPad}
Cores ==
    {Rep("a", len) : len \in 0..MaxCore} \cup
    {<<"a", " ">> \o Rep("a", len - 2) : len \in 3..MaxCore}

\* TodoValidator.validateText(chars) is called
ValidateCall(chars) ==
    /\ validated' = Call(chars)
    /\ UNCHANGED <<todos, store, now, last, storage, display, notifyVars, examined>>

\* one call on a generated text
NextValidate ==
    /\ ~validated.called
    /\ \E lead \in Pads, core \in Cores, trail \in Pads :
          ValidateCall(lead \o core \o trail)

SpecValidate == Init /\ [][NextValidate]_vars

(***************************************************************************)
(* The validator on its own: one validateTodoObject call on a generated   *)
(* value, as JSON.parse can produce it.                                    *)
(***************************************************************************)
RecordIds == {Absent, Null, Num(0), Num(1), Str(<<"1">>), Infinity}
RecordTexts == {Absent, Str(<<>>), Str(<<"b">>), Str(LongText), Num(5)}
RecordFlags == {Absent, Null, Bool(TRUE), Str(<<"y">>)}
RecordDates == {Absent, Num(0), Str(ToISOString(0)), Str(<<"x">>)}
RecordInputs ==
    {Prim(Null), Prim(Str(<<"b">>))} \cup
    {Obj(id, text, completed, createdAt) :
        id \in RecordIds, text \in RecordTexts,
        completed \in RecordFlags, createdAt \in RecordDates}

\* TodoValidator.validateTodoObject(record) is called
ValidateTodoObjectCall(record) ==
    /\ examined' = [called |-> TRUE, record |-> record,
                    result |-> ValidateTodoObject(record)]
    /\ UNCHANGED <<todos, store, now, validated, last, storage, display,
                   notifyVars>>

\* one call on a generated value
NextRecord ==
    /\ ~examined.called
    /\ \E record \in RecordInputs : ValidateTodoObjectCall(record)

SpecRecord == Init /\ [][NextRecord]_vars

(***************************************************************************)
(* The NotificationManager on its own: show calls and the two timers of    *)
(* each notification, in any order.                                        *)
(***************************************************************************)
NotificationTypes == {"success", "error", "info"}

\* document.createElement('div') with className notification-${type} and
\* the slide-in animation of its style
NotificationElement(n, type) ==
    [id |-> n, type |-> type, animation |-> "slideInRight"]

\* NotificationManager.removeExistingNotification: querySelector finds
\* the first notification element of the page, which is removed
RemoveExistingNotificationMutKeep(elements) == elements

RemoveExistingNotification(elements) ==
    IF elements = <<>> THEN elements ELSE Tail(elements)

\* is the element with this id attached (notification.parentNode)?
Attached(elements, n) == \E i \in 1..Len(elements) : elements[i].id = n
\* notification.remove()
Detach(elements, n) == SelectSeq(elements, LAMBDA element : element.id # n)

\* hideNotification(notification): the element, if attached, gets the
\* slide-out animation
Hidden(elements, n) ==
    [i \in 1..Len(elements) |->
        IF elements[i].id = n
        THEN [elements[i] EXCEPT !.animation = "slideOutRight"]
        ELSE elements[i]]

\* hideNotification(notification): setTimeout(..., 300) if the element is
\* attached
ScheduledMutNever(timers, elements, n) == timers

Scheduled(timers, elements, n) ==
    IF Attached(elements, n) THEN timers \cup {n} ELSE timers

\* if (notification.parentNode) { notification.remove() }
RemovedMutAny(elements, n) ==
    IF elements # <<>> THEN Tail(elements) ELSE elements

Removed(elements, n) ==
    IF Attached(elements, n) THEN Detach(elements, n) ELSE elements

\* NotificationManager.show(message, type): createNotification, then
\* displayNotification, which appends the element and starts its
\* dismissal timer
Show(type) ==
    /\ created < MaxShows
    /\ created' = created + 1
    /\ body' = Append(RemoveExistingNotification(body),
                      NotificationElement(created', type))
    /\ hideTimers' = hideTimers \cup {created'}
    /\ UNCHANGED <<removeTimers, todos, store, now, validated, last,
                   storage, display, examined>>

\* the dismissal timer of notification n fires: hideNotification(n)
\* starts the animation and the 300 ms removal timer if n is still attached
HideTimerFires(n) ==
    /\ n \in hideTimers
    /\ hideTimers' = hideTimers \ {n}
    /\ body' = Hidden(body, n)
    /\ removeTimers' = Scheduled(removeTimers, body, n)
    /\ UNCHANGED <<created, todos, store, now, validated, last,
                   storage, display, examined>>

\* the removal timer of notification n fires: n is removed if it is
\* still attached
RemoveTimerFires(n) ==
    /\ n \in removeTimers
    /\ removeTimers' = removeTimers \ {n}
    /\ body' = Removed(body, n)
    /\ UNCHANGED <<hideTimers, created, todos, store, now, validated, last,
                   storage, display, examined>>

NextNotify ==
    \/ \E type \in NotificationTypes : Show(type)
    \/ \E n \in 1..MaxShows : HideTimerFires(n)
    \/ \E n \in 1..MaxShows : RemoveTimerFires(n)

SpecNotify == Init /\ [][NextNotify]_vars

\* setTimeout: a timer that was started fires after its delay
TimersFire ==
    \A n \in 1..MaxShows :
        WF_vars(HideTimerFires(n)) /\ WF_vars(RemoveTimerFires(n))

SpecNotifyFair == Init /\ [][NextNotify]_vars /\ TimersFire

(***************************************************************************)
(* Properties.                                                             *)
(***************************************************************************)
\* the number of characters from the first to the last character that is
\* not whitespace, 0 when there is none
NonBlank(chars) == {i \in 1..Len(chars) : chars[i] \notin WhiteSpace}
TrimmedLength(chars) ==
    LET nonBlank == NonBlank(chars) IN
    IF nonBlank = {} THEN 0
    ELSE LET first == CHOOSE i \in nonBlank : \A j \in nonBlank : i <= j
             final == CHOOSE i \in nonBlank : \A j \in nonBlank : j <= i
         IN final - first + 1
LengthOK(chars) == TrimmedLength(chars) >= 1 /\ TrimmedLength(chars) <= 100

\* the texts of TextInputs by their trimmed length
AcceptableTexts == {chars \in TextInputs : LengthOK(chars)}
UnacceptableTexts == TextInputs \ AcceptableTexts

\* the handler left the collection and the storage key alone and asked for
\* an error notification
NothingDoneButError ==
    /\ todos' = todos
    /\ store' = store
    /\ ~last'.wrote
    /\ last'.shown = "error"

\* C1: when the text given to addTodo or updateTodo has a trimmed length of
\* 0 or of more than 100, the collection after the call is the collection
\* before it, nothing is written under the storage key, an error
\* notification is shown and updateTodo returns false.
C1_RejectedTextChangesNothing ==
    [][last'.op \in {"addTodo", "updateTodo"} =>
       \A chars \in UnacceptableTexts :
          /\ AddTodo(chars) => NothingDoneButError
          /\ \A id \in IdInputs :
                UpdateTodo(id, chars) =>
                    NothingDoneButError /\ last'.ret = "false"]_vars

C1_Witness ==
    /\ last.op = "updateTodo"
    /\ last.ret = "false"
    /\ last.shown = "error"
    /\ validated.called
    /\ TrimmedLength(validated.text) > 100
    /\ Len(todos) = 2

\* C2: an addTodo call whose text passes validation grows the collection by
\* exactly one task, placed at the end, with completed = false; the tasks
\* already in the collection keep their fields and their order.
C2_AcceptedAddAppends ==
    [][last'.op = "addTodo" =>
       \A chars \in AcceptableTexts : AddTodo(chars) =>
          /\ Len(todos') = Len(todos) + 1
          /\ SubSeq(todos', 1, Len(todos)) = todos
          /\ todos'[Len(todos')].completed = Bool(FALSE)]_vars

C2_Witness ==
    /\ last.op = "addTodo"
    /\ last.shown = "success"
    /\ Len(todos) = 2
    /\ todos[1].id # todos[2].id
    /\ todos[1].completed = Bool(TRUE)

\* C3: for every input accepted by addTodo, the text stored in the new
\* task and written under the storage key is the trimmed input.
C3_StoredTextIsTrimmed ==
    [][last'.op = "addTodo" =>
       \A chars \in AcceptableTexts : AddTodo(chars) =>
          /\ todos'[Len(todos')].text = Str(Trim(chars))
          /\ store'.items[Len(todos')].text = Str(Trim(chars))]_vars

\* C4: every task of the collection has a text of at least 1 and at most
\* 100 characters.
C4_TextLengthInvariant ==
    \A i \in 1..Len(todos) :
        /\ todos[i].text.k = "string"
        /\ Len(todos[i].text.s) >= 1
        /\ Len(todos[i].text.s) <= 100

\* C5: no two tasks of the collection have the same id.
C5_UniqueIds ==
    \A i, j \in 1..Len(todos) : i # j => todos[i].id # todos[j].id

\* the JSON text under the storage key reads back as the collection: same
\* length, same order, same id, text, completed and createdAt
StoreHoldsCollection ==
    /\ store.k = "array"
    /\ Len(store.items) = Len(todos)
    /\ \A i \in 1..Len(todos) :
          LET data == ParseElement(store.items[i]) IN
          /\ Get(data.id) = todos[i].id
          /\ Get(data.text) = todos[i].text
          /\ Get(data.completed) = todos[i].completed
          /\ Get(data.createdAt) = todos[i].createdAt

\* C6: after every mutation that wrote to the store, the value under the
\* storage key is the JSON serialization of the whole collection, with the
\* same id, text, completed and createdAt for every task.
C6_StoreMatchesCollection == last.wrote => StoreHoldsCollection

\* C7: constructing a new controller yields a collection equal to the one
\* held before the restart.
C7_RestartKeepsCollection == [][Restart => todos' = todos]_vars

\* the inputs of importTodos that are not valid JSON, are not an array, or
\* hold an element that validateTodoObject rejects
BadImportInputs ==
    {json \in ImportInputs :
        \/ json.k # "array"
        \/ \E i \in 1..Len(json.items) :
              ~ValidateTodoObject(ParseElement(json.items[i])).isValid}
GoodImportInputs == ImportInputs \ BadImportInputs

\* C8: importTodos is all-or-nothing: for every such input it returns
\* false, leaves the collection as it was, writes nothing and shows an
\* error notification.
C8_FailedImportChangesNothing ==
    [][last'.op = "importTodos" =>
          \A json \in BadImportInputs :
              ImportTodos(json) =>
                  NothingDoneButError /\ last'.ret = "false"]_vars

C8_Witness ==
    /\ last.op = "importTodos"
    /\ last.ret = "false"
    /\ last.shown = "error"
    /\ Len(todos) = 2

\* C9: given an array whose every element is valid, importTodos returns
\* true, the collection becomes exactly the imported records in input
\* order, it is written under the storage key and a success notification
\* is shown.
C9_ImportReplacesCollection ==
    [][last'.op = "importTodos" =>
          \A json \in GoodImportInputs :
              ImportTodos(json) =>
                  /\ last'.ret = "true"
                  /\ Len(todos') = Len(json.items)
                  /\ \A i \in 1..Len(json.items) :
                        LET data == ParseElement(json.items[i]) IN
                        /\ todos'[i].id = data.id
                        /\ todos'[i].text = data.text
                        /\ todos'[i].completed = data.completed
                        /\ todos'[i].createdAt = data.createdAt
                  /\ last'.wrote
                  /\ store' = Stringify(todos')
                  /\ last'.shown = "success"]_vars

C9_Witness ==
    /\ last.op = "importTodos"
    /\ last.ret = "true"
    /\ Len(todos) = 2
    /\ todos[1].completed = Bool(TRUE)
    /\ todos[2].id = Infinity

\* C10: validateText reports valid exactly when the trimmed length of the
\* text is between 1 and 100, and a text of whitespace only gets the
\* 'empty' error.
C10_ValidateTextLengthRule ==
    validated.called =>
        /\ validated.result.isValid <=> LengthOK(validated.text)
        /\ TrimmedLength(validated.text) = 0 =>
              validated.result.error = ErrEmpty

C10_Witness ==
    /\ validated.called
    /\ validated.result.isValid
    /\ TrimmedLength(validated.text) = 100
    /\ Len(validated.text) > 100

IdsOf(ts) == {ts[i].id : i \in 1..Len(ts)}

\* C12: toggleTodo(id) and deleteTodo(id) with an id that no task of the
\* collection has are silent no-ops: the collection, the stored value and
\* the page are unchanged, nothing is written, no notification is shown
\* and no error is raised.
C12_LookupMissIsSilent ==
    [][last'.op \in {"toggleTodo", "deleteTodo"} =>
         \A id \in IdInputs \ IdsOf(todos) :
             (ToggleTodo(id) \/ DeleteTodo(id)) =>
                 /\ todos' = todos
                 /\ store' = store
                 /\ display' = display
                 /\ ~last'.wrote
                 /\ last'.shown = "none"
                 /\ last'.ret = "void"]_vars

\* a delete that missed on a collection of two tasks
C12_Witness ==
    /\ last.op = "deleteTodo"
    /\ ~last.wrote
    /\ last.shown = "none"
    /\ Len(todos) = 2

\* C13: deleteTodo(id) with an id present in the collection removes
\* exactly one entry, the first in collection order whose id matches;
\* every other task stays with unchanged fields and in the same relative
\* order, the result is persisted and an info notification is shown.
C13_DeleteRemovesFirstMatch ==
    [][last'.op = "deleteTodo" =>
         \A id \in IdsOf(todos) :
             DeleteTodo(id) =>
                 \E i \in 1..Len(todos) :
                     /\ todos[i].id = id
                     /\ \A j \in 1..(i - 1) : todos[j].id # id
                     /\ Len(todos') = Len(todos) - 1
                     /\ \A j \in 1..(i - 1) : todos'[j] = todos[j]
                     /\ \A j \in (i + 1)..Len(todos) : todos'[j - 1] = todos[j]
                     /\ last'.wrote
                     /\ store' = Stringify(todos')
                     /\ last'.shown = "info"]_vars

\* a delete that left one task, stored as it is
C13_Witness ==
    /\ last.op = "deleteTodo"
    /\ last.shown = "info"
    /\ Len(todos) = 1
    /\ store = Stringify(todos)

\* C14 as stated: updateTodo(id, newText) with a newText that passes
\* validateText returns success, whatever id is passed, the collection is
\* persisted and re-rendered, and a task with that id has the trimmed
\* newText as its text.
C14_ValidUpdateSucceeds ==
    [][last'.op = "updateTodo" =>
         \A id \in IdInputs, chars \in AcceptableTexts :
             UpdateTodo(id, chars) =>
                 /\ last'.ret = "true"
                 /\ last'.wrote
                 /\ store' = Stringify(todos')
                 /\ display' = Render(todos', display)
                 /\ \A i \in 1..Len(todos) :
                        (todos[i].id = id /\ \A j \in 1..(i - 1) : todos[j].id # id)
                            => todos'[i].text = Str(Trim(chars))]_vars

\* C14 amended: with a valid newText and an id that a task has, updateTodo
\* returns true, the first task with that id gets the trimmed newText as
\* its text, every other field and task is unchanged, and the collection
\* is persisted and re-rendered; with a valid newText and an id that no
\* task has, it returns false and changes, writes and shows nothing.
C14_ValidUpdateOfPresentId ==
    [][last'.op = "updateTodo" =>
         \A id \in IdInputs, chars \in AcceptableTexts :
             UpdateTodo(id, chars) =>
                 IF id \in IdsOf(todos)
                 THEN /\ last'.ret = "true"
                      /\ last'.wrote
                      /\ store' = Stringify(todos')
                      /\ display' = Render(todos', display)
                      /\ Len(todos') = Len(todos)
                      /\ \E i \in 1..Len(todos) :
                            /\ todos[i].id = id
                            /\ \A j \in 1..(i - 1) : todos[j].id # id
                            /\ todos' = [todos EXCEPT
                                            ![i].text = Str(Trim(chars))]
                 ELSE /\ last'.ret = "false"
                      /\ todos' = todos
                      /\ store' = store
                      /\ display' = display
                      /\ ~last'.wrote
                      /\ last'.shown = "none"]_vars

\* an accepted update whose text had whitespace to trim
C14_Witness ==
    /\ last.op = "updateTodo"
    /\ last.ret = "true"
    /\ validated.called
    /\ Len(validated.text) > TrimmedLength(validated.text)
    /\ \E i \in 1..Len(todos) : todos[i].text = Str(Trim(validated.text))

\* C15: for every collection, including one loaded from storage with
\* completed values that are not booleans, the statistics satisfy
\* completed + incomplete = total, total is the length of the collection,
\* completionRate is 0 when total is 0 and completed / total * 100
\* otherwise.
C15_StatsAddUp ==
    LET stats == GetStats(todos)
        rate == stats.completionRate IN
    /\ stats.completed + stats.incomplete = stats.total
    /\ stats.total = Len(todos)
    /\ stats.total = 0 => rate.num = 0
    /\ stats.total > 0 => rate.num * stats.total = stats.completed * 100 * rate.den

\* a collection of two tasks loaded from storage, neither completed value
\* a boolean, one of them counted as completed, rendered again by an update
C15_Witness ==
    /\ last.op = "updateTodo"
    /\ last.wrote
    /\ Len(todos) = 2
    /\ \A i \in 1..Len(todos) : TypeOf(todos[i].completed) # "boolean"
    /\ GetStats(todos).completed = 1
    /\ display.completed = CompletedText(1)

\* the number of tasks of the collection that count as completed: the
\* page shows a task as completed when its completed value is truthy
CompletedCount(ts) ==
    Cardinality({i \in 1..Len(ts) : Truthy(ts[i].completed)})

\* C16: after startup and after every controller operation (accepted,
\* rejected or no-op) the total display reads 'Total: n' with n the length
\* of the collection and the completed display reads 'Completed: k' with
\* k the number of completed tasks of the collection.
C16_DisplayedStatsAgree ==
    /\ display.total = <<"Total: ">> \o Decimal(Len(todos))
    /\ display.completed = <<"Completed: ">> \o Decimal(CompletedCount(todos))

\* two tasks, one of them completed by a toggle: 'Total: 2', 'Completed: 1'
C16_Witness ==
    /\ last.op = "toggleTodo"
    /\ last.wrote
    /\ Len(todos) = 2
    /\ todos[1].completed = Bool(TRUE)
    /\ todos[2].completed = Bool(FALSE)
    /\ display.total = <<"Total: ", "2">>
    /\ display.completed = <<"Completed: ", "1">>

\* C17: at most one notification is displayed at any time, for any
\* interleaving of show calls, dismissal timers and removal timers: the
\* page never contains two notification elements, and after each show the
\* displayed notification is the newest one.
C17_AtMostOneNotification ==
    /\ [](Len(body) <= 1)
    /\ [][created' # created =>
            /\ Len(body') = 1
            /\ body'[1].id = created']_vars

\* the third notification is displayed while timers of older ones are
\* still pending
C17_Witness ==
    /\ created = 3
    /\ Len(body) = 1
    /\ body[1].id = 3
    /\ 1 \in removeTimers
    /\ 2 \in hideTimers

\* the storage key is absent, does not hold parseable JSON, holds JSON
\* that is not an array, or cannot be read
UnusableStore ==
    \/ storage = "denied"
    \/ store.k \in {"absent", "invalid", "other"}

\* C18: startup never fails because of stored data: when the key is
\* absent, when reading it throws, when its content is not parseable JSON
\* or parses to something that is not an array, the controller reaches its
\* operating state with an empty collection, rendered as the empty state.
C18_StartupSurvivesBadStore ==
    [][(last'.op = "init" /\ UnusableStore /\ Restart) =>
          /\ todos' = <<>>
          /\ display'.empty
          /\ display'.rows = <<>>
          /\ display'.total = <<"Total: ", "0">>
          /\ display'.completed = <<"Completed: ", "0">>
          /\ last' = Outcome("init", "void", FALSE, "none")]_vars

\* the page was opened on a key that holds a JSON object, not an array
C18_Witness ==
    /\ last.op = "init"
    /\ store.k = "other"
    /\ store.items # <<>>
    /\ todos = <<>>
    /\ display.empty

\* what a handler returns and the notification it shows when it has
\* changed the collection
NormalOutcome(op) ==
    CASE op = "addTodo" -> [ret |-> "void", shown |-> "success"]
      [] op = "toggleTodo" -> [ret |-> "void", shown |-> "none"]
      [] op = "deleteTodo" -> [ret |-> "void", shown |-> "info"]
      [] op = "updateTodo" -> [ret |-> "true", shown |-> "none"]
      [] op = "clearAllTodos" -> [ret |-> "void", shown |-> "info"]
      [] op = "clearCompletedTodos" -> [ret |-> "void", shown |-> "info"]
      [] OTHER -> [ret |-> "true", shown |-> "success"]

\* the change each handler makes to the collection
MutationApplied(op) ==
    CASE op = "addTodo" ->
            /\ Len(todos') = Len(todos) + 1
            /\ SubSeq(todos', 1, Len(todos)) = todos
      [] op = "toggleTodo" ->
            /\ Len(todos') = Len(todos)
            /\ \E i \in 1..Len(todos) :
                  /\ Truthy(todos'[i].completed) # Truthy(todos[i].completed)
                  /\ \A j \in 1..Len(todos) : j # i => todos'[j] = todos[j]
      [] op = "deleteTodo" -> Len(todos') = Len(todos) - 1
      [] op = "updateTodo" ->
            /\ Len(todos') = Len(todos)
            /\ \E i \in 1..Len(todos) :
                  todos'[i].text = Str(Trim(validated'.text))
      [] op = "clearAllTodos" -> todos' = <<>>
      [] op = "clearCompletedTodos" ->
            /\ \A i \in 1..Len(todos') : ~Truthy(todos'[i].completed)
            /\ Len(todos') = Len(todos) - CompletedCount(todos)
      [] OTHER ->
            \E json \in GoodImportInputs :
                /\ Len(todos') = Len(json.items)
                /\ \A i \in 1..Len(todos') :
                      todos'[i].text = ParseElement(json.items[i]).text

\* C19: a failing persistence write is absorbed: if the store throws on
\* write during add, toggle, delete, update, clearAll, clearCompleted or
\* import, the in-memory mutation is still applied, the page is still
\* re-rendered from the in-memory collection, the operation reports its
\* normal outcome and no error notification is shown.
C19_FailingWriteIsAbsorbed ==
    [][(last'.wrote /\ SetItemThrows(storage) /\ ~Tick) =>
          /\ store' = store
          /\ MutationApplied(last'.op)
          /\ display'.empty = (todos' = <<>>)
          /\ Len(display'.rows) = Len(todos')
          /\ display'.total = <<"Total: ">> \o Decimal(Len(todos'))
          /\ display'.completed =
                 <<"Completed: ">> \o Decimal(CompletedCount(todos'))
          /\ last'.ret = NormalOutcome(last'.op).ret
          /\ last'.shown = NormalOutcome(last'.op).shown]_vars

\* an import of two tasks on a full localStorage: the collection and the
\* page hold them, the key is still absent
C19_Witness ==
    /\ storage = "full"
    /\ last.op = "importTodos"
    /\ last.ret = "true"
    /\ last.shown = "success"
    /\ Len(todos) = 2
    /\ display.total = <<"Total: ", "2">>
    /\ store = NoItem

\* the positions of the tasks that are not completed, and the k-th of them
OpenPositions(ts) == {i \in 1..Len(ts) : ~Truthy(ts[i].completed)}
OpenPosition(ts, k) ==
    CHOOSE i \in OpenPositions(ts) :
        Cardinality({j \in OpenPositions(ts) : j <= i}) = k

\* C20: clearCompletedTodos leaves exactly the tasks that were not
\* completed, with unchanged fields and in their original order, and
\* clearAllTodos leaves the collection empty; with a working store both
\* persist the result (clearAllTodos an empty JSON array, not a removed
\* key), both re-render and show an info notification, also when nothing
\* was removed.
C20_ClearKeepsOpenTasks ==
    [][(last'.op \in {"clearAllTodos", "clearCompletedTodos"} /\ ~Tick) =>
          /\ ClearAllTodos =>
                /\ todos' = <<>>
                /\ storage = "working" => store' = JsonArray(<<>>)
          /\ ClearCompletedTodos =>
                /\ Len(todos') = Cardinality(OpenPositions(todos))
                /\ \A k \in 1..Len(todos') :
                      todos'[k] = todos[OpenPosition(todos, k)]
                /\ storage = "working" => store' = Stringify(todos')
          /\ last'.wrote
          /\ display'.empty = (todos' = <<>>)
          /\ Len(display'.rows) = Len(todos')
          /\ display'.total = <<"Total: ">> \o Decimal(Len(todos'))
          /\ last'.shown = "info"]_vars

\* clearCompletedTodos on two tasks, none of them completed: both stay
C20_Witness ==
    /\ last.op = "clearCompletedTodos"
    /\ last.shown = "info"
    /\ Len(todos) = 2
    /\ store = Stringify(todos)

\* C21: for every task the program can create (by addTodo, then any
\* toggles and text updates), fromJSON(toJSON(task)) has the same id, text,
\* completed and createdAt as the task, whatever the clock reads.
C21_RoundTrip ==
    \A i \in 1..Len(todos), clock \in 1..MaxClock :
        LET copy == FromJSON(ToJSON(todos[i]), clock) IN
        /\ copy.id = todos[i].id
        /\ copy.text = todos[i].text
        /\ copy.completed = todos[i].completed
        /\ copy.createdAt = todos[i].createdAt

\* a task made by addTodo, then completed by a toggle and given a trimmed
\* text by an update, at a later reading of the clock
C21_Witness ==
    /\ now > 1
    /\ \E i \in 1..Len(todos) :
          /\ todos[i].id = Num(1)
          /\ todos[i].completed = Bool(TRUE)
          /\ todos[i].text = Str(Rep("a", MAX_LENGTH))

\* the records that TodoList.loadTodos hands to TodoItem.fromJSON
LoadedRecords == ReadTodos(storage, store)

\* C22: fromJSON reconstructs a task exactly as given: for every record
\* passed to it through the storage load path (also one with id 0 or without
\* an id), the task's id, text, completed and createdAt are the record's
\* values, none recomputed from the clock.
C22_LoadedAsGiven ==
    last.op = "init" =>
        /\ Len(todos) = Len(LoadedRecords)
        /\ \A i \in 1..Len(todos) :
              /\ todos[i].id = Get(LoadedRecords[i].id)
              /\ todos[i].text = Get(LoadedRecords[i].text)
              /\ todos[i].completed = Get(LoadedRecords[i].completed)
              /\ todos[i].createdAt = Get(LoadedRecords[i].createdAt)

\* the positions of a call in the calls of the last handler
Positions(call) == {i \in 1..Len(last.effects) : last.effects[i] = call}
Before(first, second) ==
    \A i \in Positions(first), j \in Positions(second) : i < j
MutatingOps ==
    {"addTodo", "toggleTodo", "deleteTodo", "updateTodo", "clearAllTodos",
     "clearCompletedTodos", "importTodos"}

HasText(element) == element.text.k # "absent"
TextBearing(json) == SelectSeq(ParseItems(json), HasText)

\* C24: when the storage key holds a JSON array, load returns exactly the
\* elements that carry a text field, in their stored order; an element without
\* a text (a record with no text field, or a null element) is dropped and
\* never causes the text-bearing records of the same array to be lost.
C24_LoadKeepsTextBearing ==
    (store.k = "array" /\ ~GetItemThrows(storage)) =>
        StorageLoadTodos(store) = TextBearing(store)

\* the checks of validateTodoObject as the documentation states them
IsRecord(record) == record.prim = ObjectValue
MissingFields(record) ==
    SelectSeq(<<"id", "text", "completed", "createdAt">>,
              LAMBDA field : record[field].k = "absent")
PositiveNumber(id) == id.k = "infinity" \/ (id.k = "number" /\ id.n > 0)
DateString(createdAt) ==
    createdAt.k = "string" /\ createdAt.s \in {ToISOString(t) : t \in 0..9}

\* C25: validateTodoObject returns the error of the first failing check in a
\* fixed order: the value is an object, then id, text, completed, createdAt are
\* present (in that order), then the text is valid, then the id is a positive
\* number, then completed is a boolean, then createdAt is a string that parses
\* as a date; a missing field is reported even if another field is invalid,
\* and the record is valid only if every check passes.
C25_FirstFailingCheck ==
    examined.called =>
        LET record == examined.record
            result == examined.result IN
        /\ ~result.threw
        /\ IF ~IsRecord(record) THEN result = Invalid(ErrObject)
           ELSE IF MissingFields(record) # <<>>
           THEN result = Invalid(ErrMissing(Head(MissingFields(record))))
           ELSE IF record.text.k # "string" THEN ~result.isValid
           ELSE IF ~LengthOK(record.text.s)
           THEN result = Invalid(IF NonBlank(record.text.s) = {}
                                 THEN ErrEmpty ELSE ErrTooLong)
           ELSE IF ~PositiveNumber(record.id) THEN result = Invalid(ErrId)
           ELSE IF record.completed.k # "boolean"
           THEN result = Invalid(ErrCompleted)
           ELSE IF ~DateString(record.createdAt)
           THEN result = Invalid(ErrCreatedAt)
           ELSE result = Valid

\* the collection without its task at position i
Without(ts, i) == SubSeq(ts, 1, i - 1) \o SubSeq(ts, i + 1, Len(ts))

\* C26: for every task of the collection, in every reachable state (also with
\* equal ids among the tasks), the toggle control of the row that shows the
\* task flips the completed flag of that task and of no other, and its delete
\* control removes that task and no other; the id the row hands to the
\* controller is the id of the task.
C26_RowActsOnItsTask ==
    [][\A i \in 1..Len(todos) :
          /\ ToggleRow(i) =>
                /\ RowId(display.rows[i]) = todos[i].id
                /\ todos' = [todos EXCEPT ![i].completed =
                                 Bool(~Truthy(todos[i].completed))]
          /\ DeleteRow(i) =>
                /\ RowId(display.rows[i]) = todos[i].id
                /\ todos' = Without(todos, i)]_vars

\* C27: a dismissal timer only affects the notification it was scheduled
\* for: when notification A is replaced by B before A's timer fires, the later
\* firing of A's timer and of A's removal step neither removes nor alters B,
\* and B stays displayed until its own timer fires or it is itself replaced.
C27_TimerTouchesOnlyItsOwn ==
    [][\A n \in 1..MaxShows :
          /\ (HideTimerFires(n) \/ RemoveTimerFires(n)) =>
                Detach(body', n) = Detach(body, n)
          /\ (Attached(body, n) /\ ~Attached(body', n)) =>
                \/ n \notin hideTimers /\ RemoveTimerFires(n)
                \/ \E type \in NotificationTypes : Show(type)]_vars

\* notification 1 was replaced by notification 2 while its removal step was
\* pending; notification 2 is displayed as it was created
C27_Witness ==
    /\ body = <<NotificationElement(2, "info")>>
    /\ 1 \in removeTimers
    /\ 2 \in hideTimers

\* C28: every notification that is shown is eventually removed from the
\* display, by its own dismissal timer followed by the removal step or by a
\* later show call, provided that timers fire; if no further show call is made
\* (the number of show calls stays k), the display eventually holds no
\* notification.
C28_EveryNotificationGoes ==
    /\ \A n \in 1..MaxShows : Attached(body, n) ~> ~Attached(body, n)
    /\ \A k \in 0..MaxShows : (created = k) ~> (created # k \/ body = <<>>)

\* two notifications were shown and have left the page, the second by its
\* own timers; no timer is pending
C28_Witness ==
    /\ created = 2
    /\ body = <<>>
    /\ hideTimers = {}
    /\ removeTimers = {}

\* the position of the first task with this id, 0 if there is none
FirstWithId(ts, id) ==
    LET matching == {i \in 1..Len(ts) : ts[i].id = id} IN
    IF matching = {} THEN 0
    ELSE CHOOSE i \in matching : \A j \in matching : i <= j

\* the step changes nothing of the collection but the given field of the
\* task at the given position
OnlyChanges(field, position) ==
    /\ Len(todos') = Len(todos)
    /\ \A i \in 1..Len(todos) :
          \A other \in {"id", "text", "completed", "createdAt"} :
              (i # position \/ other # field) =>
                  todos'[i][other] = todos[i][other]

\* C29: no operation other than a replacing import changes the id or the
\* createdAt of an existing task: toggleTodo changes only the completed flag
\* of the first task with the id, updateTodo only that task's text, and both
\* leave every other task, the length and the order of the collection as they
\* were; addTodo, deleteTodo and the clear operations leave the tasks they keep
\* as they were.
C29_OnlyTheNamedFieldChanges ==
    [][(last'.op \in MutatingOps \ {"importTodos"} /\ ~Tick) =>
          /\ \A id \in IdInputs :
                (last'.op = "toggleTodo" /\ ToggleTodo(id)) =>
                    /\ OnlyChanges("completed", FirstWithId(todos, id))
                    /\ FirstWithId(todos, id) > 0 =>
                          todos'[FirstWithId(todos, id)].completed =
                              Bool(~Truthy(todos[FirstWithId(todos, id)].completed))
          /\ \A id \in IdInputs, chars \in TextInputs :
                (last'.op = "updateTodo" /\ UpdateTodo(id, chars)) =>
                    OnlyChanges("text", FirstWithId(todos, id))
          /\ last'.op = "addTodo" =>
                SubSeq(todos', 1, Len(todos)) = todos
          /\ last'.op \in {"deleteTodo", "clearAllTodos", "clearCompletedTodos"} =>
                \A j \in 1..Len(todos') :
                    \E i \in j..Len(todos) : todos'[j] = todos[i]]_vars

\* the first of two tasks with the same id was toggled, the second was not
C29_Witness ==
    /\ last.op = "toggleTodo"
    /\ last.wrote
    /\ Len(todos) = 2
    /\ todos[1].id = todos[2].id
    /\ todos[1].text = todos[2].text
    /\ todos[1].completed = Bool(TRUE)
    /\ todos[2].completed = Bool(FALSE)

\* C30: export followed by import is the identity on the collection: in
\* every state reachable from an empty collection by add, toggle, delete,
\* update, clearAll and clearCompleted (also with tasks whose stored text has
\* surrounding whitespace), importTodos(exportTodos()) returns true and leaves
\* the collection equal, task for task and field for field, to the one before.
C30_ExportImportIsIdentity ==
    [][(last'.op = "importTodos" /\ ExportImport) =>
          /\ last'.ret = "true"
          /\ Len(todos') = Len(todos)
          /\ \A i \in 1..Len(todos) :
                /\ todos'[i].id = todos[i].id
                /\ todos'[i].text = todos[i].text
                /\ todos'[i].completed = todos[i].completed
                /\ todos'[i].createdAt = todos[i].createdAt]_vars

\* an exported collection of two tasks was imported: one task has a text
\* with a leading blank, one is completed
C30_Witness ==
    /\ last.op = "importTodos"
    /\ last.ret = "true"
    /\ Len(todos) = 2
    /\ \E i \in 1..Len(todos) : todos[i].text = Str(PaddedText)
    /\ \E i \in 1..Len(todos) : todos[i].completed = Bool(TRUE)

====
